---- MODULE Spec2Model ----
(***************************************************************************)
(* Two-stage structured-generation pipeline of aedar-backend:              *)
(* GoalPreprocessorService.preprocess followed by                          *)
(* ChatService.generateRoadmap (src/aedar-backend/src/chat/chat.service.ts)*)
(*                                                                         *)
(* Upstream text is a sequence of lexical tokens; JSON.parse is a          *)
(* recursive-descent decoder over those tokens, and JavaScript values are  *)
(* tagged records [k, v].                                                  *)
(***************************************************************************)
EXTENDS Integers, Sequences, FiniteSets, TLC

(***************************************************************************)
(* Bounds                                                                  *)
(***************************************************************************)
NumRuns == 2
MaxResources == 4
MaxKnown == 1

(***************************************************************************)
(* Lexical tokens of an upstream text                                      *)
(***************************************************************************)
P(c) == [k |-> "p", v |-> c]
S(s) == [k |-> "s", v |-> s]
N(n) == [k |-> "n", v |-> n]
L(l) == [k |-> "l", v |-> l]
W(w) == [k |-> "w", v |-> w]

(***************************************************************************)
(* JavaScript values                                                       *)
(***************************************************************************)
JUndefined == [k |-> "undefined"]
JNull == [k |-> "null"]
JStr(s) == [k |-> "string", v |-> s]
JNum(n) == [k |-> "number", v |-> n]
JBool(b) == [k |-> "boolean", v |-> b]
JArr(seq) == [k |-> "array", v |-> seq]
JObj(f) == [k |-> "object", v |-> f]
EmptyObj == JObj([x \in {} |-> JUndefined])

\* typeof / Array.isArray tests
IsArray(x) == x.k = "array"
IsNullish(x) == x.k \in {"undefined", "null"}

\* truthiness, as used by `!text` and `a || b`
Truthy(x) ==
  CASE x.k \in {"undefined", "null"} -> FALSE
    [] x.k = "boolean" -> x.v
    [] x.k = "string" -> x.v # ""
    [] x.k = "number" -> x.v # "0"
    [] OTHER -> TRUE

\* a || b
OrElse(a, b) == IF Truthy(a) THEN a ELSE b
\* a ?? b
Coalesce(a, b) == IF IsNullish(a) THEN b ELSE a

\* property read x.name on a non-nullish value; on null/undefined the read
\* throws TypeError, which the callers test with IsNullish first
GetProp(x, name) ==
  IF x.k = "object" /\ name \in DOMAIN x.v THEN x.v[name] ELSE JUndefined

(***************************************************************************)
(* JSON.parse                                                              *)
(***************************************************************************)
ParseFail == [ok |-> FALSE, val |-> JUndefined, pos |-> 0]
ParseOk(val, pos) == [ok |-> TRUE, val |-> val, pos |-> pos]
IsP(ts, i, c) == i <= Len(ts) /\ ts[i] = P(c)

RECURSIVE ParseValue(_, _)
RECURSIVE ParseElements(_, _, _)
RECURSIVE ParseMembers(_, _, _)

ParseValue(ts, i) ==
  IF i > Len(ts) THEN ParseFail
  ELSE LET t == ts[i] IN
    CASE t.k = "s" -> ParseOk(JStr(t.v), i + 1)
      [] t.k = "n" -> ParseOk(JNum(t.v), i + 1)
      [] t.k = "l" /\ t.v = "true" -> ParseOk(JBool(TRUE), i + 1)
      [] t.k = "l" /\ t.v = "false" -> ParseOk(JBool(FALSE), i + 1)
      [] t.k = "l" /\ t.v = "null" -> ParseOk(JNull, i + 1)
      [] t = P("[") ->
           IF IsP(ts, i + 1, "]") THEN ParseOk(JArr(<<>>), i + 2)
           ELSE ParseElements(ts, i + 1, <<>>)
      [] t = P("{") ->
           IF IsP(ts, i + 1, "}") THEN ParseOk(EmptyObj, i + 2)
           ELSE ParseMembers(ts, i + 1, [x \in {} |-> JUndefined])
      [] OTHER -> ParseFail

ParseElements(ts, i, acc) ==
  LET r == ParseValue(ts, i) IN
  IF ~r.ok THEN ParseFail
  ELSE IF IsP(ts, r.pos, ",") THEN ParseElements(ts, r.pos + 1, Append(acc, r.val))
  ELSE IF IsP(ts, r.pos, "]") THEN ParseOk(JArr(Append(acc, r.val)), r.pos + 1)
  ELSE ParseFail

ParseMembers(ts, i, acc) ==
  IF ~(i <= Len(ts) /\ ts[i].k = "s" /\ IsP(ts, i + 1, ":")) THEN ParseFail
  ELSE LET r == ParseValue(ts, i + 2) IN
    IF ~r.ok THEN ParseFail
    ELSE LET acc2 == (ts[i].v :> r.val) @@ acc IN
      IF IsP(ts, r.pos, ",") THEN ParseMembers(ts, r.pos + 1, acc2)
      ELSE IF IsP(ts, r.pos, "}") THEN ParseOk(JObj(acc2), r.pos + 1)
      ELSE ParseFail

\* JSON.parse(text): the whole text must be one value, else SyntaxError
JSONParse(ts) ==
  LET r == ParseValue(ts, 1) IN
  IF r.ok /\ r.pos = Len(ts) + 1 THEN [ok |-> TRUE, val |-> r.val]
  ELSE [ok |-> FALSE, val |-> JUndefined]

\* text.match(/\[[\s\S]*\]/): leftmost "[" up to the last "]" after it
BracketPositions(ts, c) == {i \in 1..Len(ts) : ts[i] = P(c)}
SetMin(A) == CHOOSE a \in A : \A b \in A : a <= b
SetMax(A) == CHOOSE a \in A : \A b \in A : a >= b
FallbackMatch(ts) ==
  LET opens == BracketPositions(ts, "[")
      closes == BracketPositions(ts, "]") IN
  IF opens = {} \/ closes = {} \/ SetMin(opens) > SetMax(closes)
  THEN [found |-> FALSE, sub |-> <<>>]
  ELSE [found |-> TRUE, sub |-> SubSeq(ts, SetMin(opens), SetMax(closes))]

(***************************************************************************)
(* Upstream texts: renderings of schema-shaped payloads, and malformed     *)
(* texts                                                                   *)
(***************************************************************************)
RECURSIVE JoinComma(_)
JoinComma(parts) ==
  IF Len(parts) = 0 THEN <<>>
  ELSE IF Len(parts) = 1 THEN parts[1]
  ELSE parts[1] \o <<P(",")>> \o JoinComma(Tail(parts))

RenderArray(parts) == <<P("[")>> \o JoinComma(parts) \o <<P("]")>>
RenderObject(parts) == <<P("{")>> \o JoinComma(parts) \o <<P("}")>>
Member(name, valueTokens) == <<S(name), P(":")>> \o valueTokens

ResourceTypes == <<"video", "article", "project">>
RenderResource(i) ==
  RenderObject(<< Member("type", <<S(ResourceTypes[((i - 1) % 3) + 1])>>),
                  Member("title", <<S("resource title")>>),
                  Member("link", <<S("https://developer.mozilla.org")>>),
                  Member("description", <<S("resource description")>>) >>)
RenderNode(n) ==
  RenderObject(<< Member("id", <<S("n1")>>),
                  Member("title", <<S("node title")>>),
                  Member("description", <<S("node description")>>),
                  Member("resources", RenderArray([i \in 1..n |-> RenderResource(i)])) >>)
RenderStage(n) ==
  RenderObject(<< Member("id", <<S("s1")>>),
                  Member("title", <<S("stage title")>>),
                  Member("description", <<S("stage description")>>),
                  Member("nodes", RenderArray(<<RenderNode(n)>>)) >>)
RoadmapArrayText(n) == RenderArray(<<RenderStage(n)>>)

\* reason is "omit", "null" or the reason string
RoadmapPayloadText(n, tc, reason) ==
  RenderObject(
    << Member("roadmap", RoadmapArrayText(n)),
       Member("triggerCalendar", <<L(IF tc THEN "true" ELSE "false")>>) >>
    \o (IF reason = "omit" THEN <<>>
        ELSE IF reason = "null" THEN << Member("calendarIntentReason", <<L("null")>>) >>
        ELSE << Member("calendarIntentReason", <<S(reason)>>) >>))

Reasons == {"omit", "null", "user asked for weekly reminders"}

ProseBefore == <<W("Here"), W("is"), W("your"), W("plan:")>>
ProseAfter == <<W("Enjoy!")>>
ProseArrayText(n) == ProseBefore \o RoadmapArrayText(n) \o ProseAfter
NotJsonText == <<W("not"), W("json"), W("at"), W("all")>>
BrokenBracketText == <<W("see"), P("["), W("nothing"), P("]"), W("here")>>
TwoBracketText == <<W("note"), P("["), N("1"), P("]")>> \o ProseArrayText(3)
TruncatedText == <<P("{"), S("roadmap"), P(":"), P("[")>>
EmptyText == <<>>

\* an upstream response: text, no text at all, or a rejected call
TextResp(ts) == [kind |-> "text", text |-> ts]
AbsentResp == [kind |-> "absent"]
ErrorResp(m) == [kind |-> "error", message |-> <<W(m)>>]
NoResp == [kind |-> "none"]
UpstreamErrors == {ErrorResp("fetch failed"), ErrorResp("429 Too Many Requests")}

ExperienceLevels == {"beginner", "intermediate", "advanced"}
FormatPreferences == {"video", "article", "project", "mixed"}
Skills == {"html", "css"}
OptStr(vals) == {JStr(x) : x \in vals} \cup {JUndefined}
StrSeqs(n) == UNION {[1..m -> {JStr(x) : x \in Skills}] : m \in 0..n}

\* goal descriptors that satisfy the goal-extraction schema
GoalDescriptors ==
  [goal : {JStr("learn TypeScript")},
   known : {JArr(q) : q \in StrSeqs(MaxKnown)},
   experienceLevel : OptStr(ExperienceLevels),
   formatPreference : OptStr(FormatPreferences),
   timeframe : OptStr({"in 6 weeks"}),
   specificFocus : {JArr(<<>>), JArr(<<JStr("generics")>>), JUndefined}]

EncodeStrings(a) == RenderArray([i \in 1..Len(a.v) |-> <<S(a.v[i].v)>>])
EncodeValue(x) == IF IsArray(x) THEN EncodeStrings(x) ELSE <<S(x.v)>>
EncodeOptional(name, x, style) ==
  IF x = JUndefined
  THEN (IF style = "null" THEN << Member(name, <<L("null")>>) >> ELSE <<>>)
  ELSE << Member(name, EncodeValue(x)) >>
EncodeStyles == {"omit", "null"}
\* the raw text of a schema-conforming goal payload
EncodeGoal(d, style) ==
  RenderObject(
    << Member("goal", EncodeValue(d.goal)), Member("known", EncodeValue(d.known)) >>
    \o EncodeOptional("experienceLevel", d.experienceLevel, style)
    \o EncodeOptional("formatPreference", d.formatPreference, style)
    \o EncodeOptional("timeframe", d.timeframe, style)
    \o EncodeOptional("specificFocus", d.specificFocus, style))

SampleGoal ==
  [goal |-> JStr("learn TypeScript"), known |-> JArr(<<JStr("html")>>),
   experienceLevel |-> JStr("beginner"), formatPreference |-> JUndefined,
   timeframe |-> JUndefined, specificFocus |-> JUndefined]
GoalNoKnownText == RenderObject(<< Member("goal", <<S("learn TypeScript")>>) >>)

Messages == {"Make a 6-week plan with weekly reminders",
             "Give me a roadmap to learn TypeScript"}

(***************************************************************************)
(* Thrown errors: the message is a sequence of tokens                      *)
(***************************************************************************)
EmptyMessage == <<W("Empty response from Gemini")>>
TypeErrorMessage == <<W("Cannot read properties of null")>>
\* the message of JSON.parse's SyntaxError is engine-defined: older engines
\* report a position, newer ones quote the source text
SyntaxErrorMessage(ts, style) ==
  IF style = "snippet"
  THEN <<W("Unexpected token,")>> \o ts \o <<W("is not valid JSON")>>
  ELSE <<W("Unexpected token in JSON at position")>>
SyntaxErrorStyles == {"position", "snippet"}

PreprocessPrefix == <<W("Failed to preprocess goal with Gemini: ")>>
RoadmapPrefix == <<W("Failed to generate or parse roadmap: ")>>
NewError(message) == [name |-> "Error", message |-> message]
NoError == [name |-> "none"]
NoGoal == [k |-> "none"]
NoResult == [k |-> "none"]
NoPrompt == [k |-> "none"]

\* value of response.text()
ResponseText(resp) == IF resp.kind = "text" THEN JStr(resp.text) ELSE JUndefined
\* `!text`
TextIsEmpty(resp) == resp.kind # "text" \/ resp.text = <<>>

(***************************************************************************)
(* GoalPreprocessorService.preprocess, from the resumption of the awaited  *)
(* generateContent call to its return or throw                             *)
(***************************************************************************)
\* variant: formatPreference is read from the experienceLevel property
NormalizeGoal_FieldMixup(parsed) ==
  [goal |-> GetProp(parsed, "goal"),
   known |-> OrElse(GetProp(parsed, "known"), JArr(<<>>)),
   experienceLevel |-> Coalesce(GetProp(parsed, "experienceLevel"), JUndefined),
   formatPreference |-> Coalesce(GetProp(parsed, "experienceLevel"), JUndefined),
   timeframe |-> Coalesce(GetProp(parsed, "timeframe"), JUndefined),
   specificFocus |-> Coalesce(GetProp(parsed, "specificFocus"), JUndefined)]

NormalizeGoal(parsed) ==
  [goal |-> GetProp(parsed, "goal"),
   known |-> OrElse(GetProp(parsed, "known"), JArr(<<>>)),
   experienceLevel |-> Coalesce(GetProp(parsed, "experienceLevel"), JUndefined),
   formatPreference |-> Coalesce(GetProp(parsed, "formatPreference"), JUndefined),
   timeframe |-> Coalesce(GetProp(parsed, "timeframe"), JUndefined),
   specificFocus |-> Coalesce(GetProp(parsed, "specificFocus"), JUndefined)]

\* the try block: returns a goal or throws err
PreprocessTry(resp, style) ==
  IF resp.kind = "error" THEN [ok |-> FALSE, goal |-> NoGoal, err |-> resp.message]
  ELSE IF TextIsEmpty(resp) THEN [ok |-> FALSE, goal |-> NoGoal, err |-> EmptyMessage]
  ELSE LET d == JSONParse(resp.text) IN
    IF ~d.ok
    THEN [ok |-> FALSE, goal |-> NoGoal, err |-> SyntaxErrorMessage(resp.text, style)]
    ELSE IF IsNullish(d.val)
    THEN [ok |-> FALSE, goal |-> NoGoal, err |-> TypeErrorMessage]
    ELSE [ok |-> TRUE, goal |-> NormalizeGoal(d.val), err |-> <<>>]

\* variant: the catch block returns a default goal instead of rethrowing
Preprocess_DefaultsOnFailure(resp, style) ==
  LET t == PreprocessTry(resp, style) IN
  IF t.ok THEN [ok |-> TRUE, goal |-> t.goal, error |-> NoError]
  ELSE [ok |-> TRUE, goal |-> NormalizeGoal(EmptyObj), error |-> NoError]

\* the catch block rethrows, wrapped
Preprocess(resp, style) ==
  LET t == PreprocessTry(resp, style) IN
  IF t.ok THEN [ok |-> TRUE, goal |-> t.goal, error |-> NoError]
  ELSE [ok |-> FALSE, goal |-> NoGoal, error |-> NewError(PreprocessPrefix \o t.err)]

(***************************************************************************)
(* ChatService.generateRoadmap                                             *)
(***************************************************************************)
\* the holes of the fullPrompt template
FullPrompt(userMessage, g) ==
  [userMessage |-> userMessage,
   prompt |-> <<g.goal, g.known, g.experienceLevel>>]

\* variant: no `!text` test before JSON.parse
RoadmapTry_NoEmptyCheck(resp, style) ==
  IF resp.kind = "error" THEN [ok |-> FALSE, result |-> NoResult, err |-> resp.message]
  ELSE LET ts == IF resp.kind = "text" THEN resp.text ELSE <<W("undefined")>>
           d == JSONParse(ts) IN
    IF ~d.ok
    THEN [ok |-> FALSE, result |-> NoResult, err |-> SyntaxErrorMessage(ts, style)]
    ELSE IF IsNullish(d.val)
    THEN [ok |-> FALSE, result |-> NoResult, err |-> TypeErrorMessage]
    ELSE [ok |-> TRUE,
          result |-> [roadmap |-> GetProp(d.val, "roadmap"),
                      shouldTriggerCalendar |-> GetProp(d.val, "triggerCalendar"),
                      calendarIntentReason |->
                        Coalesce(GetProp(d.val, "calendarIntentReason"), JUndefined)],
          err |-> <<>>]

\* variant: roadmap is the whole decoded payload instead of its roadmap property
RoadmapTry_WholePayload(resp, style) ==
  IF resp.kind = "error" THEN [ok |-> FALSE, result |-> NoResult, err |-> resp.message]
  ELSE IF TextIsEmpty(resp) THEN [ok |-> FALSE, result |-> NoResult, err |-> EmptyMessage]
  ELSE LET d == JSONParse(resp.text) IN
    IF ~d.ok
    THEN [ok |-> FALSE, result |-> NoResult, err |-> SyntaxErrorMessage(resp.text, style)]
    ELSE IF IsNullish(d.val)
    THEN [ok |-> FALSE, result |-> NoResult, err |-> TypeErrorMessage]
    ELSE [ok |-> TRUE,
          result |-> [roadmap |-> d.val,
                      shouldTriggerCalendar |-> GetProp(d.val, "triggerCalendar"),
                      calendarIntentReason |->
                        Coalesce(GetProp(d.val, "calendarIntentReason"), JUndefined)],
          err |-> <<>>]

\* the try block of the roadmap stage: returns a response or throws err
RoadmapTry(resp, style) ==
  IF resp.kind = "error" THEN [ok |-> FALSE, result |-> NoResult, err |-> resp.message]
  ELSE IF TextIsEmpty(resp) THEN [ok |-> FALSE, result |-> NoResult, err |-> EmptyMessage]
  ELSE LET d == JSONParse(resp.text) IN
    IF ~d.ok
    THEN [ok |-> FALSE, result |-> NoResult, err |-> SyntaxErrorMessage(resp.text, style)]
    ELSE IF IsNullish(d.val)
    THEN [ok |-> FALSE, result |-> NoResult, err |-> TypeErrorMessage]
    ELSE [ok |-> TRUE,
          result |-> [roadmap |-> GetProp(d.val, "roadmap"),
                      shouldTriggerCalendar |-> GetProp(d.val, "triggerCalendar"),
                      calendarIntentReason |->
                        Coalesce(GetProp(d.val, "calendarIntentReason"), JUndefined)],
          err |-> <<>>]

\* names bound in the function body, in the try block and in the catch block
FunctionScope ==
  {"userMessage", "goal", "known", "experienceLevel", "prompt",
   "responseSchema", "fullPrompt"}
TryBlockScope == FunctionScope \cup {"result", "response", "text", "parsed"}
CatchBlockScope == FunctionScope \cup {"err"}

\* the inner try of the catch block: reading an unbound name throws
\* ReferenceError, match on undefined throws TypeError, a failed decode
\* throws SyntaxError; all three are swallowed by the inner catch
RoadmapFallback(resp) ==
  IF "text" \notin CatchBlockScope THEN [ok |-> FALSE, result |-> NoResult]
  ELSE IF resp.kind # "text" THEN [ok |-> FALSE, result |-> NoResult]
  ELSE LET m == FallbackMatch(resp.text) IN
    IF ~m.found THEN [ok |-> FALSE, result |-> NoResult]
    ELSE LET d == JSONParse(m.sub) IN
      IF ~d.ok THEN [ok |-> FALSE, result |-> NoResult]
      ELSE [ok |-> TRUE,
            result |-> [roadmap |-> d.val,
                        shouldTriggerCalendar |-> JBool(FALSE),
                        calendarIntentReason |-> JUndefined]]

\* variant: when the fallback yields nothing an empty roadmap is returned
\* instead of the rethrow
RoadmapStage_SwallowsErrors(resp, style) ==
  LET t == RoadmapTry(resp, style) IN
  IF t.ok
  THEN [ok |-> TRUE, result |-> t.result, error |-> NoError,
        fallback |-> FALSE, from |-> "strict"]
  ELSE LET f == RoadmapFallback(resp) IN
    IF f.ok
    THEN [ok |-> TRUE, result |-> f.result, error |-> NoError,
          fallback |-> TRUE, from |-> "fallback"]
    ELSE [ok |-> TRUE,
          result |-> [roadmap |-> JArr(<<>>), shouldTriggerCalendar |-> JBool(FALSE),
                      calendarIntentReason |-> JUndefined],
          error |-> NoError, fallback |-> TRUE, from |-> "fallback"]

\* try, then catch with the fallback, then the wrapped rethrow
RoadmapStage(resp, style) ==
  LET t == RoadmapTry(resp, style) IN
  IF t.ok
  THEN [ok |-> TRUE, result |-> t.result, error |-> NoError,
        fallback |-> FALSE, from |-> "strict"]
  ELSE LET f == RoadmapFallback(resp) IN
    IF f.ok
    THEN [ok |-> TRUE, result |-> f.result, error |-> NoError,
          fallback |-> TRUE, from |-> "fallback"]
    ELSE [ok |-> FALSE, result |-> NoResult,
          error |-> NewError(RoadmapPrefix \o t.err),
          fallback |-> TRUE, from |-> "none"]

(***************************************************************************)
(* State                                                                   *)
(***************************************************************************)
Runs == 1..NumRuns

VARIABLES
  model,            \* the two generative-model handles built by the constructors
  syntaxStyle,      \* how the engine words a JSON SyntaxError
  pc,               \* per run: idle, awaitGoal, awaitRoadmap, done, failed
  userMessage,      \* per run: the argument of generateRoadmap
  goalResp,         \* per run: upstream response to the goal-extraction call
  goal,             \* per run: the PreprocessedGoal returned by preprocess
  fullPrompt,       \* per run: the prompt of the roadmap call
  roadmapResp,      \* per run: upstream response to the roadmap call
  result,           \* per run: the RoadmapResponse returned
  error,            \* per run: the Error thrown to the caller
  goalCalls,        \* per run: generateContent calls issued by preprocess
  roadmapCalls,     \* per run: generateContent calls issued by generateRoadmap
  fallbackEntered,  \* per run: the fallback try of the catch block was entered
  returnedFrom      \* per run: none, strict or fallback

vars == <<model, syntaxStyle, pc, userMessage, goalResp, goal, fullPrompt,
          roadmapResp, result, error, goalCalls, roadmapCalls,
          fallbackEntered, returnedFrom>>

ModelConfig ==
  [chat |-> [model |-> "gemini-1.5-flash", temperature |-> "0.7",
             responseMimeType |-> "application/json"],
   goal |-> [model |-> "gemini-1.5-flash", temperature |-> "0.2",
             responseMimeType |-> "application/json"]]

Init ==
  /\ model = ModelConfig
  /\ syntaxStyle \in SyntaxErrorStyles
  /\ pc = [r \in Runs |-> "idle"]
  /\ userMessage = [r \in Runs |-> ""]
  /\ goalResp = [r \in Runs |-> NoResp]
  /\ goal = [r \in Runs |-> NoGoal]
  /\ fullPrompt = [r \in Runs |-> NoPrompt]
  /\ roadmapResp = [r \in Runs |-> NoResp]
  /\ result = [r \in Runs |-> NoResult]
  /\ error = [r \in Runs |-> NoError]
  /\ goalCalls = [r \in Runs |-> 0]
  /\ roadmapCalls = [r \in Runs |-> 0]
  /\ fallbackEntered = [r \in Runs |-> FALSE]
  /\ returnedFrom = [r \in Runs |-> "none"]

(***************************************************************************)
(* Actions: a run advances from one await to the next                      *)
(***************************************************************************)
\* generateRoadmap(m) is called: preprocess builds its prompt and issues the
\* goal-extraction call
Invoke(r, msgs) ==
  /\ pc[r] = "idle"
  /\ \E m \in msgs : userMessage' = [userMessage EXCEPT ![r] = m]
  /\ goalCalls' = [goalCalls EXCEPT ![r] = @ + 1]
  /\ pc' = [pc EXCEPT ![r] = "awaitGoal"]
  /\ UNCHANGED <<model, syntaxStyle, goalResp, goal, fullPrompt, roadmapResp,
                 result, error, roadmapCalls, fallbackEntered, returnedFrom>>

\* variant: a rejected goal-extraction call is issued once more
GoalSettled_Retries(r, resps) ==
  /\ pc[r] = "awaitGoal"
  /\ \E resp \in resps :
       LET o == Preprocess(resp, syntaxStyle)
           again == resp.kind = "error" /\ goalCalls[r] < 2 IN
       /\ goalResp' = [goalResp EXCEPT ![r] = resp]
       /\ goal' = [goal EXCEPT ![r] = o.goal]
       /\ error' = [error EXCEPT ![r] = IF again THEN NoError ELSE o.error]
       /\ fullPrompt' = [fullPrompt EXCEPT ![r] =
                           IF o.ok THEN FullPrompt(userMessage[r], o.goal) ELSE NoPrompt]
       /\ roadmapCalls' = [roadmapCalls EXCEPT ![r] = IF o.ok THEN @ + 1 ELSE @]
       /\ goalCalls' = [goalCalls EXCEPT ![r] = IF again THEN @ + 1 ELSE @]
       /\ pc' = [pc EXCEPT ![r] =
                   IF o.ok THEN "awaitRoadmap" ELSE IF again THEN "awaitGoal" ELSE "failed"]
  /\ UNCHANGED <<model, syntaxStyle, userMessage, roadmapResp, result,
                 fallbackEntered, returnedFrom>>

\* the goal-extraction call settles: preprocess returns or throws; on return
\* generateRoadmap builds fullPrompt and issues the roadmap call
GoalSettled(r, resps) ==
  /\ pc[r] = "awaitGoal"
  /\ \E resp \in resps :
       LET o == Preprocess(resp, syntaxStyle) IN
       /\ goalResp' = [goalResp EXCEPT ![r] = resp]
       /\ goal' = [goal EXCEPT ![r] = o.goal]
       /\ error' = [error EXCEPT ![r] = o.error]
       /\ fullPrompt' = [fullPrompt EXCEPT ![r] =
                           IF o.ok THEN FullPrompt(userMessage[r], o.goal) ELSE NoPrompt]
       /\ roadmapCalls' = [roadmapCalls EXCEPT ![r] = IF o.ok THEN @ + 1 ELSE @]
       /\ pc' = [pc EXCEPT ![r] = IF o.ok THEN "awaitRoadmap" ELSE "failed"]
  /\ UNCHANGED <<model, syntaxStyle, userMessage, roadmapResp, result,
                 goalCalls, fallbackEntered, returnedFrom>>

\* variant: the response text is kept in a field of the service object
RoadmapSettled_SharedText(r, resps) ==
  /\ pc[r] = "awaitRoadmap"
  /\ \E resp \in resps :
       LET o == RoadmapStage(resp, syntaxStyle) IN
       /\ roadmapResp' = [q \in Runs |-> resp]
       /\ result' = [result EXCEPT ![r] = o.result]
       /\ error' = [error EXCEPT ![r] = o.error]
       /\ fallbackEntered' = [fallbackEntered EXCEPT ![r] = o.fallback]
       /\ returnedFrom' = [returnedFrom EXCEPT ![r] = o.from]
       /\ pc' = [pc EXCEPT ![r] = IF o.ok THEN "done" ELSE "failed"]
  /\ UNCHANGED <<model, syntaxStyle, userMessage, goalResp, goal, fullPrompt,
                 goalCalls, roadmapCalls>>

\* variant: a message already answered for another run is rejected as a duplicate
RoadmapSettled_Dedupes(r, resps) ==
  /\ pc[r] = "awaitRoadmap"
  /\ \E resp \in resps :
       LET dup == \E q \in Runs \ {r} : pc[q] = "done" /\ userMessage[q] = userMessage[r]
           o == IF dup
                THEN [ok |-> FALSE, result |-> NoResult,
                      error |-> NewError(RoadmapPrefix \o <<W("duplicate request")>>),
                      fallback |-> FALSE, from |-> "none"]
                ELSE RoadmapStage(resp, syntaxStyle) IN
       /\ roadmapResp' = [roadmapResp EXCEPT ![r] = resp]
       /\ result' = [result EXCEPT ![r] = o.result]
       /\ error' = [error EXCEPT ![r] = o.error]
       /\ fallbackEntered' = [fallbackEntered EXCEPT ![r] = o.fallback]
       /\ returnedFrom' = [returnedFrom EXCEPT ![r] = o.from]
       /\ pc' = [pc EXCEPT ![r] = IF o.ok THEN "done" ELSE "failed"]
  /\ UNCHANGED <<model, syntaxStyle, userMessage, goalResp, goal, fullPrompt,
                 goalCalls, roadmapCalls>>

\* the roadmap call settles: generateRoadmap returns or throws
RoadmapSettled(r, resps) ==
  /\ pc[r] = "awaitRoadmap"
  /\ \E resp \in resps :
       LET o == RoadmapStage(resp, syntaxStyle) IN
       /\ roadmapResp' = [roadmapResp EXCEPT ![r] = resp]
       /\ result' = [result EXCEPT ![r] = o.result]
       /\ error' = [error EXCEPT ![r] = o.error]
       /\ fallbackEntered' = [fallbackEntered EXCEPT ![r] = o.fallback]
       /\ returnedFrom' = [returnedFrom EXCEPT ![r] = o.from]
       /\ pc' = [pc EXCEPT ![r] = IF o.ok THEN "done" ELSE "failed"]
  /\ UNCHANGED <<model, syntaxStyle, userMessage, goalResp, goal, fullPrompt,
                 goalCalls, roadmapCalls>>

(***************************************************************************)
(* Concurrent runs on one service object                                   *)
(***************************************************************************)
GoalResponses ==
  {TextResp(EncodeGoal(SampleGoal, "null")), TextResp(EmptyText),
   ErrorResp("fetch failed")}
RoadmapResponses ==
  {TextResp(RoadmapPayloadText(3, TRUE, "user asked for weekly reminders")),
   TextResp(ProseArrayText(3)), TextResp(NotJsonText), TextResp(EmptyText),
   TextResp(RenderObject(<<>>)), ErrorResp("fetch failed")}

Next ==
  \E r \in Runs :
    \/ Invoke(r, Messages)
    \/ GoalSettled(r, GoalResponses)
    \/ RoadmapSettled(r, RoadmapResponses)

Spec == Init /\ [][Next]_vars

(***************************************************************************)
(* One run, over the whole range of goal-stage texts                       *)
(***************************************************************************)
WideGoalResponses ==
  {TextResp(EncodeGoal(d, st)) : d \in GoalDescriptors, st \in EncodeStyles}
  \cup {TextResp(GoalNoKnownText), TextResp(RenderObject(<<>>)),
        TextResp(<<L("null")>>), TextResp(<<N("5")>>), TextResp(NotJsonText),
        TextResp(EmptyText), AbsentResp}
  \cup UpstreamErrors

GoalStageNext ==
  \/ Invoke(1, Messages)
  \/ GoalSettled(1, WideGoalResponses)
  \/ RoadmapSettled(1, RoadmapResponses)

GoalStageSpec == Init /\ [][GoalStageNext]_vars

(***************************************************************************)
(* One run, over the whole range of roadmap-stage texts                    *)
(***************************************************************************)
WideRoadmapResponses ==
  {TextResp(RoadmapPayloadText(n, tc, why)) :
     n \in 0..MaxResources, tc \in BOOLEAN, why \in Reasons}
  \cup {TextResp(ProseArrayText(n)) : n \in 0..MaxResources}
  \cup {TextResp(RoadmapArrayText(3)), TextResp(RenderObject(<<>>)),
        TextResp(<<L("null")>>), TextResp(<<N("5")>>),
        TextResp(RenderObject(<< Member("roadmap", <<S("later")>>),
                                 Member("triggerCalendar", <<S("yes")>>) >>)),
        TextResp(NotJsonText), TextResp(BrokenBracketText),
        TextResp(TwoBracketText), TextResp(TruncatedText),
        TextResp(EmptyText), AbsentResp}
  \cup UpstreamErrors

RoadmapStageNext ==
  \/ Invoke(1, Messages)
  \/ GoalSettled(1, GoalResponses)
  \/ RoadmapSettled(1, WideRoadmapResponses)

RoadmapStageSpec == Init /\ [][RoadmapStageNext]_vars

(***************************************************************************)
(* Vocabulary of the properties                                            *)
(***************************************************************************)
Terminal(r) == pc[r] \in {"done", "failed"}
HasText(resp) == resp.kind = "text" /\ resp.text # <<>>
EmptyOrAbsent(resp) == resp.kind = "absent" \/ (resp.kind = "text" /\ resp.text = <<>>)
StrictDecodeFails(resp) == HasText(resp) /\ ~JSONParse(resp.text).ok

\* the arrays that some bracketed substring of the text decodes to
DecodableArrays(ts) ==
  {JSONParse(SubSeq(ts, i, j)).val :
     <<i, j>> \in {q \in BracketPositions(ts, "[") \X BracketPositions(ts, "]") :
                     q[1] < q[2] /\ JSONParse(SubSeq(ts, q[1], q[2])).ok}}

\* the message quotes the text
Carries(message, ts) ==
  \E i \in 1..(Len(message) - Len(ts) + 1) : SubSeq(message, i, i + Len(ts) - 1) = ts

\* the numbers of resources of the nodes of a roadmap value
ElementsOf(x) == IF IsArray(x) THEN {x.v[i] : i \in 1..Len(x.v)} ELSE {}
NodesOf(roadmap) == UNION {ElementsOf(GetProp(st, "nodes")) : st \in ElementsOf(roadmap)}
ResourceCount(node) ==
  IF IsArray(GetProp(node, "resources")) THEN Len(GetProp(node, "resources").v) ELSE -1
ResourceCounts(roadmap) == {ResourceCount(nd) : nd \in NodesOf(roadmap)}

EmptyError == NewError(RoadmapPrefix \o EmptyMessage)
UpstreamFailureErrors == {NewError(RoadmapPrefix \o e.message) : e \in UpstreamErrors}

(***************************************************************************)
(* Properties                                                              *)
(***************************************************************************)

\* C1 (as claimed): a run whose roadmap text is non-empty, fails strict
\* decoding and contains a bracketed array that decodes returns successfully
\* with that array as roadmap, shouldTriggerCalendar false and no reason.
C1_FallbackRecovers ==
  \A r \in Runs :
    (StrictDecodeFails(roadmapResp[r]) /\ DecodableArrays(roadmapResp[r].text) # {})
      => /\ pc[r] = "done"
         /\ result[r].roadmap \in DecodableArrays(roadmapResp[r].text)
         /\ result[r].shouldTriggerCalendar = JBool(FALSE)
         /\ result[r].calendarIntentReason = JUndefined

\* C2 (as claimed): an empty or absent roadmap text fails the run with the
\* empty-response failure and the fallback branch is not entered.
C2_EmptyNeverTriesFallback ==
  \A r \in Runs :
    EmptyOrAbsent(roadmapResp[r])
      => pc[r] = "failed" /\ error[r] = EmptyError /\ ~fallbackEntered[r]

\* C2 (amended): an empty or absent roadmap text fails the run with the
\* empty-response message and no result; the fallback branch of the catch
\* block is entered and yields nothing.
C2_EmptyFails ==
  \A r \in Runs :
    EmptyOrAbsent(roadmapResp[r])
      => /\ pc[r] = "failed"
         /\ error[r] = EmptyError
         /\ result[r] = NoResult
         /\ fallbackEntered[r]
         /\ returnedFrom[r] = "none"

C2_Witness ==
  \E r \in Runs : pc[r] = "failed" /\ roadmapResp[r] = TextResp(EmptyText)

\* C3 (as claimed): a non-empty roadmap text that fails strict decoding and
\* has no decodable bracketed array fails the run with a failure that differs
\* from the empty-response and upstream failures and carries the raw text.
C3_UnparsableCarriesRawText ==
  \A r \in Runs :
    (StrictDecodeFails(roadmapResp[r]) /\ DecodableArrays(roadmapResp[r].text) = {})
      => /\ pc[r] = "failed"
         /\ result[r] = NoResult
         /\ error[r] # EmptyError
         /\ error[r] \notin UpstreamFailureErrors
         /\ Carries(error[r].message, roadmapResp[r].text)

\* C3 (amended): such a text never yields a result; the run fails with a
\* plain Error whose message is the roadmap prefix followed by the decoder's
\* own message, which differs from the empty-response and upstream-failure
\* messages; the raw text is not a field of the failure.
C3_UnparsableFails ==
  \A r \in Runs :
    (StrictDecodeFails(roadmapResp[r]) /\ DecodableArrays(roadmapResp[r].text) = {})
      => /\ pc[r] = "failed"
         /\ result[r] = NoResult
         /\ returnedFrom[r] = "none"
         /\ DOMAIN error[r] = {"name", "message"}
         /\ error[r].name = "Error"
         /\ error[r].message =
              RoadmapPrefix \o SyntaxErrorMessage(roadmapResp[r].text, syntaxStyle)
         /\ error[r] # EmptyError
         /\ error[r] \notin UpstreamFailureErrors

C3_Witness ==
  \E r \in Runs : pc[r] = "failed" /\ roadmapResp[r] = TextResp(NotJsonText)

\* C4: the roadmap call is issued only after preprocess has returned a goal;
\* when goal extraction fails (upstream failure, empty text, decode failure,
\* null payload) the run fails with the preprocess error, no fallback is
\* tried and no roadmap call is issued.
GoalExtractionFails(resp) ==
  \/ resp.kind = "error"
  \/ EmptyOrAbsent(resp)
  \/ (HasText(resp) /\ (~JSONParse(resp.text).ok \/ IsNullish(JSONParse(resp.text).val)))
C4_StageOrder ==
  \A r \in Runs :
    /\ roadmapCalls[r] > 0
         => /\ goalCalls[r] = 1
            /\ goal[r] # NoGoal
            /\ HasText(goalResp[r])
            /\ ~GoalExtractionFails(goalResp[r])
    /\ GoalExtractionFails(goalResp[r])
         => /\ pc[r] = "failed"
            /\ goal[r] = NoGoal
            /\ result[r] = NoResult
            /\ SubSeq(error[r].message, 1, 1) = PreprocessPrefix
            /\ ~fallbackEntered[r]
            /\ roadmapCalls[r] = 0
            /\ roadmapResp[r] = NoResp

C4_Witness ==
  \E r \in Runs :
    /\ pc[r] = "failed" /\ goalResp[r] = TextResp(NotJsonText) /\ roadmapCalls[r] = 0

\* C5: a run issues at most one upstream call per stage, and an upstream
\* call failure in either stage fails the run without a result.
C5_NoRetries ==
  \A r \in Runs :
    /\ goalCalls[r] <= 1
    /\ roadmapCalls[r] <= 1
    /\ goalResp[r].kind = "error"
         => pc[r] = "failed" /\ result[r] = NoResult /\ roadmapCalls[r] = 0
    /\ roadmapResp[r].kind = "error"
         => pc[r] = "failed" /\ result[r] = NoResult

C5_Witness ==
  \E r \in Runs :
    /\ pc[r] = "failed" /\ roadmapResp[r].kind = "error"
    /\ goalCalls[r] = 1 /\ roadmapCalls[r] = 1

\* C6: a goal descriptor that satisfies the goal-extraction schema, encoded
\* as upstream text (absent fields omitted or written as null) and parsed by
\* preprocess, comes back equal to the original.
RoundTripPairs ==
  {<<TextResp(EncodeGoal(d, st)), d>> : d \in GoalDescriptors, st \in EncodeStyles}
EncodedGoalResponses == {p[1] : p \in RoundTripPairs}
\* one text encodes one descriptor
EncodingIsFunctional == \A p, q \in RoundTripPairs : p[1] = q[1] => p[2] = q[2]
C6_RoundTrip ==
  /\ EncodingIsFunctional
  /\ \A r \in Runs :
       goalResp[r] \in EncodedGoalResponses => <<goalResp[r], goal[r]>> \in RoundTripPairs

C6_Witness ==
  \E r \in Runs :
    /\ goal[r] # NoGoal
    /\ goal[r].experienceLevel = JUndefined
    /\ goal[r].formatPreference = JStr("mixed")
    /\ goal[r].specificFocus = JArr(<<JStr("generics")>>)
    /\ goalResp[r] = TextResp(EncodeGoal(goal[r], "null"))

\* C7: a step of one run changes the state of no other run and leaves the
\* shared model handles untouched.
Local(r) ==
  <<pc[r], userMessage[r], goalResp[r], goal[r], fullPrompt[r], roadmapResp[r],
    result[r], error[r], goalCalls[r], roadmapCalls[r], fallbackEntered[r],
    returnedFrom[r]>>
C7_RunsIndependent ==
  [][\A r \in Runs :
       Local(r)' # Local(r)
         => /\ \A q \in Runs \ {r} : Local(q)' = Local(q)
            /\ model' = model
            /\ syntaxStyle' = syntaxStyle]_vars

C7_Witness ==
  \E r, q \in Runs :
    /\ pc[r] = "done" /\ pc[q] = "failed"
    /\ userMessage[r] # userMessage[q]
    /\ roadmapResp[q] # NoResp

\* C8 (as claimed): every node of a roadmap returned through the strict
\* path has exactly 3 resources.
C8_ExactlyThreeResources ==
  \A r \in Runs :
    (pc[r] = "done" /\ returnedFrom[r] = "strict")
      => \A nd \in NodesOf(result[r].roadmap) : ResourceCount(nd) = 3

\* C8 (amended): every node of a roadmap returned through the strict path
\* has exactly the resources the upstream text gave it, so exactly 3 when
\* the upstream text carries 3 per node; the count is not validated.
C8_ResourcesAsUpstream ==
  \A r \in Runs :
    \A n \in 0..MaxResources : \A tc \in BOOLEAN : \A why \in Reasons :
      roadmapResp[r] = TextResp(RoadmapPayloadText(n, tc, why))
        => /\ pc[r] = "done"
           /\ returnedFrom[r] = "strict"
           /\ ResourceCounts(result[r].roadmap) = {n}

C8_Witness ==
  \E r \in Runs :
    /\ pc[r] = "done" /\ returnedFrom[r] = "strict"
    /\ ResourceCounts(result[r].roadmap) = {3}

\* C9: two runs with the same message that received the same goal text and
\* the same roadmap text have the same outcome.
C9_Deterministic ==
  \A r, q \in Runs :
    (/\ Terminal(r) /\ Terminal(q)
     /\ userMessage[r] = userMessage[q]
     /\ goalResp[r] = goalResp[q]
     /\ roadmapResp[r] = roadmapResp[q])
      => pc[r] = pc[q] /\ result[r] = result[q] /\ error[r] = error[q]

C9_Witness ==
  \E r, q \in Runs :
    /\ r # q /\ pc[r] = "done" /\ pc[q] = "done"
    /\ userMessage[r] = userMessage[q]
    /\ goalResp[r] = goalResp[q]
    /\ roadmapResp[r] = roadmapResp[q]

\* C10 (as claimed): every result returned as success has a roadmap that is
\* a sequence and a shouldTriggerCalendar that is a boolean.
C10_SuccessIsWellFormed ==
  \A r \in Runs :
    pc[r] = "done"
      => IsArray(result[r].roadmap) /\ result[r].shouldTriggerCalendar.k = "boolean"

====
